---- MODULE Spec2Model ----
(***************************************************************************)
(* A model of src/SVM/svm.py: class SVM, a support vector machine trained  *)
(* by a simplified SMO loop (fit), with predict and support_vectors.       *)
(*                                                                         *)
(* Numbers.  The program computes in IEEE doubles.  The model computes in  *)
(* exact rationals <<n, d>> (d > 0, lowest terms).  The feature vectors    *)
(* and the values of C the model draws make every value of a run a dyadic  *)
(* rational with a small denominator, which a double holds exactly, so the *)
(* two agree on the runs modelled.  The rbf kernel's values are            *)
(* transcendental: an rbf model can be constructed, but fit on it is not   *)
(* modelled.                                                               *)
(***************************************************************************)
EXTENDS Integers, Sequences, FiniteSets, TLC

VARIABLES
    args,      \* the arguments kernel and **kwargs of the call of SVM(...)
    pc,        \* "new": no instance yet; "raised": __init__ raised;
               \* "idle": an instance exists, no call in progress;
               \* "pass": fit is at the head of the outer loop (line 35);
               \* "inner": fit is at the head of the inner loop (line 37)
    C, tol, max_iter,   \* self.C, self.tol, self.max_iter
    K,         \* self.K: [kind |-> "linear" | "poly" | "rbf" | "unset", divisor |-> ..]
    trained,   \* FALSE while self._X, self._Y and self.alpha are None
    X, Y,      \* self._X, self._Y
    alpha, b,  \* self.alpha, self.b
    it,        \* number of outer passes of the running fit already completed
    i1,        \* the inner loop's index (0-based, as in the code)
    E,         \* fit's local error cache
    last,      \* the branch the latest inner iteration took, with its i1 and i2
    ret,       \* the outcome of the latest call
    fits,      \* number of calls of fit so far
    traj,      \* the (alpha, b) values of the running/latest fit, one per commit
    prev,      \* the arguments and trajectory of the fit before it
    visited    \* the i1 values the running/latest fit has visited, in order

vars == <<args, pc, C, tol, max_iter, K, trained, X, Y, alpha, b, it, i1, E, last,
          ret, fits, traj, prev, visited>>

-----------------------------------------------------------------------------
(* Bounds of the model *)

MaxN == 3          \* longest training set
MaxIter == 2       \* largest max_iter
MaxFits == 2       \* calls of fit on one instance
MaxM == 1          \* longest input of predict

-----------------------------------------------------------------------------
(* Exact rational arithmetic *)

Abs(i) == IF i < 0 THEN -i ELSE i

RECURSIVE GCD(_, _)
GCD(m, n) == IF n = 0 THEN m ELSE GCD(n, m % n)

Rat(n, d) ==
    LET s == IF d < 0 THEN -1 ELSE 1
        g == GCD(Abs(n), Abs(d))
    IN  <<(s * n) \div g, (s * d) \div g>>

RInt(i) == <<i, 1>>
RAdd(p, q) == Rat(p[1] * q[2] + q[1] * p[2], p[2] * q[2])
RNeg(p) == <<-p[1], p[2]>>
RSub(p, q) == RAdd(p, RNeg(q))
RMul(p, q) == Rat(p[1] * q[1], p[2] * q[2])
RDiv(p, q) == Rat(p[1] * q[2], p[2] * q[1])
RScale(i, p) == Rat(i * p[1], p[2])
RLt(p, q) == p[1] * q[2] < q[1] * p[2]
RLe(p, q) == p[1] * q[2] <= q[1] * p[2]
RAbs(p) == <<Abs(p[1]), p[2]>>
RMax(p, q) == IF RLt(p, q) THEN q ELSE p
RMin(p, q) == IF RLt(q, p) THEN q ELSE p
Zero == RInt(0)
One == RInt(1)

-----------------------------------------------------------------------------
(* Inputs *)

\* Labelled examples <<x, y>>; training sets are the sequences of them
Examples == {<<<<1, 1>>, 1>>, <<<<-1, -1>>, -1>>, <<<<1, -1>>, 1>>, <<<<1, -1>>, -1>>}
QueryPoints == {<<0, 0>>, <<1, 1>>}
CValues == {<<1, 2>>, <<1, 1>>, <<2, 1>>}
TolValues == {<<1, 1000>>}
\* The (kernel, **kwargs) of a call of SVM(...): kwargs is <<>> or <<sigma>>
KernelArgs == {<<"linear", <<>>>>, <<"poly", <<>>>>, <<"sigmoid", <<>>>>,
               <<"rbf", <<>>>>, <<"rbf", <<1>>>>}

SeqsUpTo(S, n) == UNION {[1..k -> S] : k \in 0..n}

TrainingSets ==
    {<<[k \in 1..Len(s) |-> s[k][1]], [k \in 1..Len(s) |-> s[k][2]]>> :
        s \in SeqsUpTo(Examples, MaxN)}

\* The outcome of a call: the method, its argument (predict's X), the exception
\* raised ("none": it returned) and the value returned
Outcome(op, arg, exc, val) == [op |-> op, arg |-> arg, exc |-> exc, val |-> val]
NoRet == Outcome("none", <<>>, "none", <<>>)
NoLast == [kind |-> "none", i1 |-> 0, i2 |-> 0]
NoPrev == [valid |-> FALSE, X |-> <<>>, Y |-> <<>>, traj |-> <<>>]

-----------------------------------------------------------------------------
(* Kernels, decision function, error, KKT check *)

Dot(x, y) == x[1] * y[1] + x[2] * y[2]

LinearKernel(x, y) == Dot(x, y)

PolyKernel(x, y) == (Dot(x, y) + 1) * (Dot(x, y) + 1)

Kernel(x, y) ==
    CASE K.kind = "linear" -> RInt(LinearKernel(x, y))
      [] K.kind = "poly"   -> RInt(PolyKernel(x, y))

N == Len(X)

RECURSIVE SumTerms(_, _, _)
SumTerms(al, x, n) ==
    IF n = 0 THEN Zero
    ELSE RAdd(SumTerms(al, x, n - 1),
              RMul(RScale(Y[n], al[n]), Kernel(X[n], x)))

\* _g and _calc_error for given values of self.alpha and self.b
G(al, bb, x) == RAdd(SumTerms(al, x, N), bb)

CalcError(al, bb, i) == RSub(G(al, bb, X[i + 1]), RInt(Y[i + 1]))

g(x) == G(alpha, b, x)

calc_error(i) == CalcError(alpha, b, i)

satisfy_kkt(i) ==
    LET gi == g(X[i + 1])
        yi == Y[i + 1]
        ai == RAbs(alpha[i + 1])
    IN  IF RLt(ai, tol) THEN RLe(One, RScale(yi, gi))
        ELSE IF RLt(RSub(C, tol), ai) THEN RLe(RScale(yi, gi), One)
        ELSE RLt(RAbs(RSub(RScale(yi, gi), One)), tol)

argmin(e) ==
    (CHOOSE i \in 1..Len(e) :
        /\ \A j \in 1..Len(e) : RLe(e[i], e[j])
        /\ \A j \in 1..(i - 1) : e[j] # e[i]) - 1

argmax(e) ==
    (CHOOSE i \in 1..Len(e) :
        /\ \A j \in 1..Len(e) : RLe(e[j], e[i])
        /\ \A j \in 1..(i - 1) : e[j] # e[i]) - 1

clip(v, lo, hi) == RMin(RMax(v, lo), hi)

-----------------------------------------------------------------------------
(* __init__ *)

Init ==
    /\ args = [kernel |-> "none", kwargs |-> <<>>]
    /\ pc = "new"
    /\ C = Zero /\ tol = Zero /\ max_iter = 0
    /\ K = [kind |-> "unset", divisor |-> 0]
    /\ trained = FALSE
    /\ X = <<>> /\ Y = <<>> /\ alpha = <<>> /\ b = Zero
    /\ it = 0 /\ i1 = 0 /\ E = <<>>
    /\ last = NoLast
    /\ ret = NoRet
    /\ fits = 0
    /\ traj = <<>>
    /\ prev = NoPrev
    /\ visited = <<>>

KernelOf(kernel, kwargs) ==
    IF kernel = "linear" THEN [kind |-> "linear", divisor |-> 0]
    ELSE IF kernel = "poly" THEN [kind |-> "poly", divisor |-> 0]
    ELSE IF kernel = "rbf" THEN [kind |-> "rbf", divisor |-> 2 * kwargs[1] * kwargs[1]]
    ELSE [kind |-> "unset", divisor |-> 0]

Construct(c, t, m, kernel, kwargs) ==
    /\ pc = "new"
    /\ args' = [kernel |-> kernel, kwargs |-> kwargs]
    /\ C' = c /\ tol' = t /\ max_iter' = m
    /\ IF kernel = "rbf" /\ kwargs = <<>>
       THEN /\ pc' = "raised"
            /\ ret' = Outcome("init", <<>>, "KeyError", <<>>)
            /\ UNCHANGED K
       ELSE /\ pc' = "idle"
            /\ ret' = Outcome("init", <<>>, "none", <<>>)
            /\ K' = KernelOf(kernel, kwargs)
    /\ UNCHANGED <<trained, X, Y, alpha, b, it, i1, E, last, fits, traj, prev, visited>>

-----------------------------------------------------------------------------
(* fit *)

Ones(n) == [k \in 1..n |-> One]

FitInputs == IF fits = 0 THEN TrainingSets ELSE {<<X, Y>>}

Fit(Xin, Yin) ==
    /\ pc = "idle"
    /\ K.kind # "rbf"
    /\ fits < MaxFits
    /\ X' = Xin /\ Y' = Yin
    /\ trained' = TRUE
    /\ alpha' = Ones(Len(Xin))
    /\ pc' = "pass"
    /\ it' = 0 /\ i1' = 0 /\ E' = <<>>
    /\ last' = NoLast
    /\ ret' = Outcome("fit", <<>>, "running", <<>>)
    /\ fits' = fits + 1
    /\ prev' = [valid |-> fits > 0, X |-> X, Y |-> Y, traj |-> traj]
    /\ traj' = <<[alpha |-> Ones(Len(Xin)), b |-> b]>>
    /\ visited' = <<>>
    /\ UNCHANGED <<args, C, tol, max_iter, K, b>>

\* Variant: the loop also ends once a pass has left every example satisfying
\* the KKT check (a convergence-based early exit)
PassesLeftUntilConverged ==
    IF it = 0 \/ K.kind = "unset" THEN it < max_iter
    ELSE it < max_iter /\ \E k \in 1..N : ~satisfy_kkt(k - 1)

PassesLeft == it < max_iter

FullErrors == [k \in 1..N |-> calc_error(k - 1)]

PassStart ==
    /\ pc = "pass"
    /\ PassesLeft
    /\ IF K.kind = "unset" /\ N > 0
       THEN /\ pc' = "idle"
            /\ ret' = Outcome("fit", <<>>, "AttributeError", <<>>)
            /\ UNCHANGED <<E, i1>>
       ELSE /\ pc' = "inner"
            /\ E' = FullErrors
            /\ i1' = 0
            /\ UNCHANGED ret
    /\ UNCHANGED <<args, C, tol, max_iter, K, trained, X, Y, alpha, b, it, last,
                   fits, traj, prev, visited>>

SelectSecond(E1, e) == IF RLt(Zero, E1) THEN argmin(e) ELSE argmax(e)

LowerBound(y1, y2, alpha1, alpha2) ==
    IF y1 * y2 < 0 THEN RMax(Zero, RSub(alpha2, alpha1))
    ELSE RMax(Zero, RSub(RAdd(alpha1, alpha2), C))

UpperBound(y1, y2, alpha1, alpha2) ==
    IF y1 * y2 < 0 THEN RMin(C, RSub(RAdd(C, alpha2), alpha1))
    ELSE RMin(C, RAdd(alpha1, alpha2))

Eta(x1, x2) ==
    RSub(RAdd(Kernel(x1, x1), Kernel(x2, x2)), RScale(2, Kernel(x1, x2)))

NewAlpha2(alpha2, y2, E1, E2, eta, L, H) ==
    clip(RAdd(alpha2, RDiv(RScale(y2, RSub(E1, E2)), eta)), L, H)

\* Variant: the factor y1 * y2 left out
NewAlpha1Unsigned(alpha1, y1, y2, alpha2, alpha2_new) ==
    RAdd(alpha1, RSub(alpha2, alpha2_new))

NewAlpha1(alpha1, y1, y2, alpha2, alpha2_new) ==
    RAdd(alpha1, RScale(y1 * y2, RSub(alpha2, alpha2_new)))

\* b1_new (k1 = k11, k2 = k12, Ei = E1) and b2_new (k1 = k12, k2 = k22, Ei = E2)
NewBias(Ei, y1, y2, k1, k2, alpha1_delta, alpha2_delta) ==
    RAdd(RSub(RSub(RNeg(Ei), RMul(RScale(y1, k1), alpha1_delta)),
              RMul(RScale(y2, k2), alpha2_delta)),
         b)

ChooseBias(alpha1_new, alpha2_new, b1_new, b2_new) ==
    IF RLt(Zero, alpha1_new) /\ RLt(alpha1_new, C) THEN b1_new
    ELSE IF RLt(Zero, alpha2_new) /\ RLt(alpha2_new, C) THEN b2_new
    ELSE RDiv(RAdd(b1_new, b2_new), RInt(2))

SkipFirst(i, E1) == E1 = Zero \/ satisfy_kkt(i)

\* Variant: the L == H test left out
SkipBoundsNever(L, H) == FALSE

SkipBounds(L, H) == L = H

SkipEta(eta) == RLe(eta, Zero)

\* Variant: the whole cache recomputed after a committed update
PatchErrorsAll(e, al, bb, i, j) == [k \in 1..N |-> CalcError(al, bb, k - 1)]

PatchErrors(e, al, bb, i, j) ==
    [e EXCEPT ![i + 1] = CalcError(al, bb, i), ![j + 1] = CalcError(al, bb, j)]

Skipped(kind, j) == [kind |-> kind, i2 |-> j, alpha |-> alpha, b |-> b, E |-> E]

\* One iteration of the inner loop at index i: the branch taken and the new
\* values of self.alpha, self.b and E.
StepResult(i) ==
    LET E1 == calc_error(i) IN
    IF SkipFirst(i, E1) THEN Skipped(IF E1 = Zero THEN "E1zero" ELSE "kkt", -1)
    ELSE
    LET j == SelectSecond(E1, E) IN
    IF i = j THEN Skipped("same", j)
    ELSE
    LET E2 == calc_error(j)
        x1 == X[i + 1]
        x2 == X[j + 1]
        y1 == Y[i + 1]
        y2 == Y[j + 1]
        alpha1 == alpha[i + 1]
        alpha2 == alpha[j + 1]
        k11 == Kernel(x1, x1)
        k22 == Kernel(x2, x2)
        k12 == Kernel(x1, x2)
        L == LowerBound(y1, y2, alpha1, alpha2)
        H == UpperBound(y1, y2, alpha1, alpha2)
    IN
    IF SkipBounds(L, H) THEN Skipped("LeqH", j)
    ELSE
    LET eta == Eta(x1, x2) IN
    IF SkipEta(eta) THEN Skipped("eta", j)
    ELSE
    LET alpha2_new == NewAlpha2(alpha2, y2, E1, E2, eta, L, H)
        alpha1_new == NewAlpha1(alpha1, y1, y2, alpha2, alpha2_new)
        alpha2_delta == RSub(alpha2_new, alpha2)
        alpha1_delta == RSub(alpha1_new, alpha1)
        b1_new == NewBias(E1, y1, y2, k11, k12, alpha1_delta, alpha2_delta)
        b2_new == NewBias(E2, y1, y2, k12, k22, alpha1_delta, alpha2_delta)
        al == [alpha EXCEPT ![i + 1] = alpha1_new, ![j + 1] = alpha2_new]
        bb == ChooseBias(alpha1_new, alpha2_new, b1_new, b2_new)
    IN  [kind |-> "update", i2 |-> j, alpha |-> al, b |-> bb,
         E |-> PatchErrors(E, al, bb, i, j)]

Step ==
    /\ pc = "inner"
    /\ i1 < N
    /\ LET r == StepResult(i1) IN
        /\ alpha' = r.alpha
        /\ b' = r.b
        /\ E' = r.E
        /\ last' = [kind |-> r.kind, i1 |-> i1, i2 |-> r.i2]
        /\ traj' = IF r.kind = "update"
                   THEN Append(traj, [alpha |-> r.alpha, b |-> r.b])
                   ELSE traj
    /\ i1' = i1 + 1
    /\ visited' = Append(visited, i1)
    /\ UNCHANGED <<args, pc, C, tol, max_iter, K, trained, X, Y, it, ret, fits, prev>>

EndPass ==
    /\ pc = "inner"
    /\ i1 = N
    /\ pc' = "pass"
    /\ it' = it + 1
    /\ UNCHANGED <<args, C, tol, max_iter, K, trained, X, Y, alpha, b, i1, E, last,
                   ret, fits, traj, prev, visited>>

FitReturn ==
    /\ pc = "pass"
    /\ ~PassesLeft
    /\ pc' = "idle"
    /\ ret' = Outcome("fit", <<>>, "none", <<>>)
    /\ UNCHANGED <<args, C, tol, max_iter, K, trained, X, Y, alpha, b, it, i1, E, last,
                   fits, traj, prev, visited>>

-----------------------------------------------------------------------------
(* predict and support_vectors *)

\* predict is called on query points and, as in __main__, on the training features
PredictInputs == SeqsUpTo(QueryPoints, MaxM) \cup (IF trained THEN {X} ELSE {})

\* Variant: a tie g(x) = 0 mapped to +1
LabelTieUp(v) == IF RLe(Zero, v) THEN 1 ELSE -1

\* Variant: labels 1 and 0 instead of 1 and -1
LabelZeroOne(v) == IF RLt(Zero, v) THEN 1 ELSE 0

Label(v) == IF RLt(Zero, v) THEN 1 ELSE -1

Predict(Xq) ==
    /\ pc = "idle"
    /\ ret' = IF Len(Xq) = 0 THEN Outcome("predict", Xq, "none", <<>>)
              ELSE IF ~trained THEN Outcome("predict", Xq, "TypeError", <<>>)
              ELSE IF K.kind = "unset" THEN Outcome("predict", Xq, "AttributeError", <<>>)
              ELSE Outcome("predict", Xq, "none", [k \in 1..Len(Xq) |-> Label(g(Xq[k]))])
    /\ UNCHANGED <<args, pc, C, tol, max_iter, K, trained, X, Y, alpha, b, it, i1, E,
                   last, fits, traj, prev, visited>>

\* Variant: alpha >= 0 instead of alpha > 0
PositiveOrZero(a) == RLe(Zero, a)

Positive(a) == RLt(Zero, a)

RECURSIVE Masked(_, _, _)
Masked(xs, al, n) ==
    IF n = 0 THEN <<>>
    ELSE IF Positive(al[n]) THEN Append(Masked(xs, al, n - 1), xs[n])
    ELSE Masked(xs, al, n - 1)

SupportVectors ==
    /\ pc = "idle"
    /\ ret' = IF ~trained THEN Outcome("support_vectors", <<>>, "TypeError", <<>>)
              ELSE Outcome("support_vectors", <<>>, "none", Masked(X, alpha, N))
    /\ UNCHANGED <<args, pc, C, tol, max_iter, K, trained, X, Y, alpha, b, it, i1, E,
                   last, fits, traj, prev, visited>>

-----------------------------------------------------------------------------

Next ==
    \/ \E c \in CValues, t \in TolValues, m \in 1..MaxIter, ka \in KernelArgs :
            Construct(c, t, m, ka[1], ka[2])
    \/ \E d \in FitInputs : Fit(d[1], d[2])
    \/ PassStart
    \/ Step
    \/ EndPass
    \/ FitReturn
    \/ \E Xq \in PredictInputs : Predict(Xq)
    \/ SupportVectors

Spec == Init /\ [][Next]_vars

-----------------------------------------------------------------------------
(* The scenario SVM(C=1.0, tol=1e-3, max_iter=10, kernel='linear'): the     *)
(* state after that construction, then any calls.                          *)

InitToy ==
    /\ args = [kernel |-> "linear", kwargs |-> <<>>]
    /\ pc = "idle"
    /\ C = One /\ tol = <<1, 1000>> /\ max_iter = 10
    /\ K = KernelOf("linear", <<>>)
    /\ trained = FALSE
    /\ X = <<>> /\ Y = <<>> /\ alpha = <<>> /\ b = Zero
    /\ it = 0 /\ i1 = 0 /\ E = <<>>
    /\ last = NoLast
    /\ ret = Outcome("init", <<>>, "none", <<>>)
    /\ fits = 0
    /\ traj = <<>>
    /\ prev = NoPrev
    /\ visited = <<>>

NextToy ==
    \/ \E d \in FitInputs : Fit(d[1], d[2])
    \/ PassStart
    \/ Step
    \/ EndPass
    \/ FitReturn
    \/ \E Xq \in PredictInputs : Predict(Xq)
    \/ SupportVectors

ToySpec == InitToy /\ [][NextToy]_vars

-----------------------------------------------------------------------------
(* Properties *)

InFit == pc \in {"pass", "inner"}
ValidKernel == K.kind \in {"linear", "poly", "rbf"}
HasInstance == pc \in {"idle", "pass", "inner"}
InBox(a) == RLe(Zero, a) /\ RLe(a, C)

\* C1: from the initialization of alpha in fit onward, every multiplier
\* satisfies 0 <= alpha[i] <= C.
C1_AlphaInBox ==
    trained => \A k \in 1..Len(alpha) : InBox(alpha[k])

\* C2: a configuration error (a kernel name outside linear, poly, rbf, or rbf
\* without sigma) fails at construction: no instance exists after it, and no
\* later call raises for the missing kernel.
C2_ConfigErrorFailsAtConstruction ==
    HasInstance =>
        /\ args.kernel \in {"linear", "poly", "rbf"}
        /\ args.kernel = "rbf" => args.kwargs # <<>>
        /\ ret.exc # "AttributeError"

\* C3: a fit that repeats the arguments of the fit before it, on the same
\* instance, goes through the same alpha and b values step by step.
C3_RefitSameTrajectory ==
    (prev.valid /\ prev.X = X /\ prev.Y = Y) =>
        /\ Len(traj) <= Len(prev.traj)
        /\ \A k \in 1..Len(traj) : traj[k] = prev.traj[k]
        /\ (pc = "idle" => Len(traj) = Len(prev.traj))

\* The decision value sum_i al_i * y_i * K(x_i, x) + bb, summed from the last
\* training example down
RECURSIVE DecisionFrom(_, _, _, _)
DecisionFrom(al, bb, x, k) ==
    IF k > N THEN bb
    ELSE RAdd(RMul(RMul(al[k], RInt(Y[k])), Kernel(X[k], x)),
              DecisionFrom(al, bb, x, k + 1))

Decision(x) == DecisionFrom(alpha, b, x, 1)

\* g(x_k) - y_k (k from 1) for given multipliers and bias
ErrorOf(al, bb, k) == RSub(DecisionFrom(al, bb, X[k], 1), RInt(Y[k]))

\* C4: on a fitted model predict returns one label per input vector, in input
\* order, +1 iff the decision value is strictly greater than 0 and -1 otherwise,
\* and changes neither alpha, b nor the training set.
C4_PredictSign ==
    /\ [](ret.op = "predict" /\ trained /\ ValidKernel =>
            /\ ret.exc = "none"
            /\ Len(ret.val) = Len(ret.arg)
            /\ \A j \in 1..Len(ret.arg) :
                /\ ret.val[j] \in {-1, 1}
                /\ ret.val[j] = 1 <=> RLt(Zero, Decision(ret.arg[j])))
    /\ [][pc = "idle" /\ ret'.op = "predict" =>
            /\ pc' = "idle"
            /\ <<alpha, b, X, Y, trained>>' = <<alpha, b, X, Y, trained>>]_vars

C4_Witness ==
    /\ ret.op = "predict" /\ trained /\ ValidKernel /\ fits > 0
    /\ Len(ret.arg) = 1
    /\ Decision(ret.arg[1]) = Zero
    /\ ret.val = <<-1>>
    /\ \E k \in 1..N : alpha[k] # One

SupportIndices == {k \in 1..N : alpha[k][1] > 0}
KthOf(S, k) == CHOOSE i \in S : Cardinality({j \in S : j < i}) = k - 1

\* C5: after a fit support_vectors returns exactly the training vectors whose
\* alpha is > 0, in index order; on a model never fitted it returns no vector
\* (the read raises).
C5_SupportVectors ==
    ret.op = "support_vectors" =>
        IF trained
        THEN /\ ret.exc = "none"
             /\ Len(ret.val) = Cardinality(SupportIndices)
             /\ \A k \in 1..Len(ret.val) : ret.val[k] = X[KthOf(SupportIndices, k)]
        ELSE ret.exc # "none" /\ ret.val = <<>>

C5_Witness ==
    /\ ret.op = "support_vectors" /\ trained /\ fits > 0
    /\ N = 3
    /\ ret.val = <<X[1], X[3]>>
    /\ alpha[2] = Zero

\* The i1 values of p full passes over n examples
Schedule(p, n) == [k \in 1..(p * n) |-> (k - 1) % n]

\* C6: fit runs exactly max_iter outer passes, each visiting i1 = 0 .. N-1 in
\* order once: while it runs it has visited the first it*N + i1 indices of that
\* schedule, and it returns only after all of it.
C6_ExactlyMaxIterPasses ==
    /\ (InFit /\ ValidKernel) =>
        /\ it <= max_iter
        /\ i1 <= N
        /\ pc = "pass" => visited = SubSeq(Schedule(max_iter, N), 1, it * N)
        /\ pc = "inner" => /\ it < max_iter
                           /\ visited = SubSeq(Schedule(max_iter, N), 1, it * N + i1)
    /\ (pc = "idle" /\ ret.op = "fit" /\ ret.exc = "none") =>
        /\ it = max_iter
        /\ visited = Schedule(max_iter, N)

C6_Witness ==
    /\ pc = "idle" /\ ret.op = "fit" /\ ret.exc = "none"
    /\ max_iter = 2 /\ N = 3
    /\ Len(traj) = 1
    /\ visited = <<0, 1, 2, 0, 1, 2>>

ToyX == <<<<1, 1>>, <<-1, -1>>>>
ToyY == <<1, -1>>

\* C7: with linear kernel, C = 1.0, tol = 1e-3, max_iter = 10, after fitting
\* x_0 = [1,1], y_0 = +1, x_1 = [-1,-1], y_1 = -1, predict on the two training
\* points returns [+1, -1].
C7_ToyScenario ==
    (ret.op = "predict" /\ trained /\ X = ToyX /\ Y = ToyY /\ ret.arg = ToyX) =>
        ret.exc = "none" /\ ret.val = <<1, -1>>

C7_Witness ==
    /\ ret.op = "predict" /\ trained /\ X = ToyX /\ Y = ToyY /\ ret.arg = ToyX
    /\ K.kind = "linear" /\ C = One /\ tol = <<1, 1000>> /\ max_iter = 10
    /\ it = 10
    /\ ret.val = <<1, -1>>

\* The conditions under which the inner iteration at i1 makes no move
DegenerateAt(i) ==
    LET E1 == calc_error(i)
        j == IF RLt(Zero, E1) THEN argmin(E) ELSE argmax(E)
        L == LowerBound(Y[i + 1], Y[j + 1], alpha[i + 1], alpha[j + 1])
        H == UpperBound(Y[i + 1], Y[j + 1], alpha[i + 1], alpha[j + 1])
    IN  \/ E1 = Zero
        \/ satisfy_kkt(i)
        \/ j = i
        \/ L = H
        \/ RLe(Eta(X[i + 1], X[j + 1]), Zero)

\* C8: an inner iteration whose pair is degenerate (L = H, or eta <= 0), or
\* whose i1 is skipped (E1 = 0, KKT satisfied, i2 = i1), raises nothing, leaves
\* alpha, b and E unchanged, and the loop goes on to the next i1.
C8_DegenerateStepIsNoOp ==
    [][(pc = "inner" /\ i1 < N /\ DegenerateAt(i1)) =>
            /\ <<alpha, b, E>>' = <<alpha, b, E>>
            /\ pc' = "inner" /\ i1' = i1 + 1
            /\ ret' = ret /\ traj' = traj]_vars

C8_Witness ==
    /\ pc = "inner" /\ last.kind = "eta"
    /\ \E k \in 1..N : alpha[k] # One

\* C9: i2 is argmin(E) when E1 > 0 and argmax(E) otherwise; E is computed for
\* all examples at the start of a pass, and an inner iteration changes it only
\* when it commits an update, and then only at i1 and i2, which get the error
\* recomputed from the new alpha and b; every other entry keeps its value.
C9_SecondChoiceFromCachedErrors ==
    /\ [][(pc = "pass" /\ pc' = "inner") =>
            E' = [k \in 1..N |-> ErrorOf(alpha, b, k)]]_vars
    /\ [][(pc = "inner" /\ i1 < N) =>
            LET i == i1
                j == last'.i2
                E1 == ErrorOf(alpha, b, i + 1)
            IN  /\ last'.i1 = i
                /\ last'.kind \notin {"E1zero", "kkt"} =>
                      j = IF RLt(Zero, E1) THEN argmin(E) ELSE argmax(E)
                /\ last'.kind # "update" => E' = E
                /\ last'.kind = "update" =>
                      /\ \A k \in 1..N : (k - 1) \notin {i, j} => E'[k] = E[k]
                      /\ \A k \in {i + 1, j + 1} : E'[k] = ErrorOf(alpha', b', k)]_vars

C9_Witness ==
    /\ pc = "inner" /\ last.kind = "update"
    /\ \E k \in 1..N :
        /\ (k - 1) \notin {last.i1, last.i2}
        /\ E[k] # calc_error(k - 1)

RECURSIVE WeightedSum(_, _, _)
WeightedSum(al, ys, n) ==
    IF n = 0 THEN Zero ELSE RAdd(WeightedSum(al, ys, n - 1), RMul(al[n], RInt(ys[n])))

\* C10: a committed update changes alpha only at i1 and i2 and preserves
\* y1*alpha1 + y2*alpha2, so sum_i alpha_i*y_i stays at sum_i y_i throughout fit.
C10_WeightedSumPreserved ==
    /\ [](trained => WeightedSum(alpha, Y, N) = WeightedSum(Ones(N), Y, N))
    /\ [][(pc = "inner" /\ i1 < N) =>
            LET i == i1 + 1
                j == last'.i2 + 1
            IN  IF last'.kind = "update"
                THEN /\ \A k \in 1..N : k \notin {i, j} => alpha'[k] = alpha[k]
                     /\ RAdd(RMul(alpha'[i], RInt(Y[i])), RMul(alpha'[j], RInt(Y[j])))
                          = RAdd(RMul(alpha[i], RInt(Y[i])), RMul(alpha[j], RInt(Y[j])))
                ELSE alpha' = alpha]_vars

C10_Witness ==
    /\ pc = "inner" /\ last.kind = "update"
    /\ Y[last.i1 + 1] # Y[last.i2 + 1]
    /\ alpha[last.i1 + 1] # One
    /\ WeightedSum(Ones(N), Y, N) # Zero

====
